---- MODULE Spec2Model ----
(***************************************************************************)
(* mander.py: MANage RenDERing of a Blender animation.  __main__ discovers *)
(* the scene's frame range, builds a BlenderCmd and calls run, which       *)
(* launches Blender, waits for it, scans the output directory for the      *)
(* frames that were written and relaunches from the frame after the last   *)
(* one while the retry budget lasts.                                       *)
(*                                                                         *)
(* The output directory is a set of entries [name, isfile]; a name is a    *)
(* sequence of one-character strings, so that rsplit('.') and int() are    *)
(* computed on the characters as the code computes them.  Blender is the   *)
(* environment: once launched it writes the frames start_frame, ... ,      *)
(* end_frame in order, may stop after any of them, and exits with any code *)
(* of ExitCodes.                                                           *)
(***************************************************************************)
EXTENDS Integers, Sequences, FiniteSets, TLC

\* ---------------------------------------------------------------- bounds
\* the largest frame number a scene may end at
MaxFrame == 3
\* the largest --max_retry given on the command line
MaxRetries == 2
\* the latest time a line arrives at
MaxTime == 5
\* the largest status_message_frequency an interpreter is built with
MaxFreq == 2
\* the most lines a Blender process writes in one attempt
MaxLines == 2

\* ------------------------------------------------------------- constants
\* exit_code before any attempt (Python's None); no process exits with it
None == -1
\* the exit codes a Blender process ends with: 0, 1 (the two codes the loop
\* condition names) and 2 for every other code; none is negative on the
\* Windows hosts the paths of the program are written for
ExitCodes == {0, 1, 2}
\* the default of BlenderLineInterpreter's status_message_frequency
status_message_frequency == 30

VARIABLES
    pc,              \* where the program is: "main", "entry", "loop", "running", "evaluate", "exited"
    max_retries,     \* args.max_retry
    resume,          \* bool(args.resume)
    dir_exists,      \* os.path.isdir(frame_output_path)
    dir,             \* the entries of the output directory
    start,           \* get_scene_frames: the scene's first frame
    end,             \* get_scene_frames: the scene's last frame
    start_frame,     \* blender_cmd.start_frame
    end_frame,       \* blender_cmd.end_frame
    exit_code,       \* run: exit_code
    num_retries,     \* run: num_retries
    frames_rendered, \* run: frames_rendered (as a set)
    child_next,      \* the frame the running Blender process writes next
    status,          \* the exit status of the program (None while it runs)
    error,           \* what ended the program: "none", "discovery", "ValueError"
    launches,        \* history: number of Popen calls so far
    launch_start,    \* history: start_frame of the most recent Popen call
    codes_seen,      \* history: the exit codes of the attempts so far
    now,             \* time.time()
    status_msg_freq, \* BlenderLineInterpreter.status_msg_freq
    last_report_time,\* BlenderLineInterpreter.last_report_time
    saved_filename,  \* BlenderLineInterpreter.saved_filename
    render_time,     \* BlenderLineInterpreter.render_time
    printed,         \* what the last call of summarize printed
    last_line,       \* history: the line the last call of summarize was given
    hb_prev,         \* history: when the heartbeat before the last one was printed
    hb_last,         \* history: when the last heartbeat was printed
    fresh,           \* history: the last "Saved:" line since the last "Time:" line
    since_time,      \* history: time of the last "Time:" line, until a "Fra:" line comes
    ppc,             \* where the pump loop of run is: "idle", "poll0", "readline", "poll", "done"
    pipe,            \* proc.stdout: the lines written and not read yet
    closed,          \* the write end of proc.stdout is closed
    returncode,      \* proc.returncode: None until the process has exited
    written,         \* history: the lines the process wrote, in order
    passed,          \* history: the lines given to summarize, in order
    eof_read         \* history: readline has returned b''

runvars == <<pc, max_retries, resume, dir_exists, dir, start, end, start_frame,
             end_frame, exit_code, num_retries, frames_rendered, child_next,
             status, error, launches, launch_start, codes_seen>>

linevars == <<now, status_msg_freq, last_report_time, saved_filename,
              render_time, printed, last_line, hb_prev, hb_last, fresh,
              since_time>>

pumpvars == <<ppc, pipe, closed, returncode, written, passed, eof_read>>

vars == <<runvars, linevars, pumpvars>>

\* ------------------------------------------------------------ file names
Digits == <<"0", "1", "2", "3", "4", "5", "6", "7", "8", "9">>

DigitChars == {Digits[i] : i \in 1..10}

DigitValue(c) == (CHOOSE i \in 1..10 : Digits[i] = c) - 1

SetMax(S) == CHOOSE x \in S : \A y \in S : y <= x

\* the file Blender writes for frame n: the zero-padded number and ".png"
FrameFile(n) ==
    [name |-> <<"0", "0", Digits[(n \div 10) + 1], Digits[(n % 10) + 1],
                ".", "p", "n", "g">>,
     isfile |-> TRUE]

\* a regular file whose stem is not a number
NotANumberFile ==
    [name |-> <<"n", "o", "t", "a", "n", "u", "m", "b", "e", "r",
                ".", "p", "n", "g">>,
     isfile |-> TRUE]

\* a subdirectory whose name is a number no frame file carries
NumberedSubdir ==
    [name |-> <<Digits[MaxFrame + 2]>>, isfile |-> FALSE]

\* what a directory given to --resume may hold
ResumeEntries ==
    {FrameFile(n) : n \in 0..MaxFrame} \cup {NotANumberFile, NumberedSubdir}

\* f.rsplit('.', maxsplit=1)[0]
Stem(name) ==
    LET dots == {i \in 1..Len(name) : name[i] = "."}
    IN  IF dots = {} THEN name ELSE SubSeq(name, 1, SetMax(dots) - 1)

\* int(s) succeeds (on names made of letters, digits and dots)
IsInt(s) == Len(s) > 0 /\ \A i \in 1..Len(s) : s[i] \in DigitChars

RECURSIVE IntOf(_)
\* int(s) for a string of decimal digits
IntOf(s) ==
    IF Len(s) = 0 THEN 0
    ELSE 10 * IntOf(SubSeq(s, 1, Len(s) - 1)) + DigitValue(s[Len(s)])

\* get_frame_numbers_in_dir: the frame numbers, or raised when int() raises
get_frame_numbers_in_dir(exists, entries) ==
    IF ~exists THEN [raised |-> FALSE, frames |-> {}]
    ELSE LET filenames == {e.name : e \in {x \in entries : x.isfile}}
         IN  IF \E f \in filenames : ~IsInt(Stem(f))
             THEN [raised |-> TRUE, frames |-> {}]
             ELSE [raised |-> FALSE,
                   frames |-> {IntOf(Stem(f)) : f \in filenames}]

\* ------------------------------------------------------------ BlenderCmd
\* A command-line argument is a sequence of pieces of text: a literal or a
\* path is one piece, a number is the sequence of its decimal digits.

RECURSIVE str(_)
\* str(n) of an integer
str(n) ==
    IF n < 0 THEN <<"-">> \o str(0 - n)
    ELSE IF n < 10 THEN <<Digits[n + 1]>>
    ELSE str(n \div 10) \o <<Digits[(n % 10) + 1]>>

\* os.path.abspath(args.project_file)
project_file == "C:\\blender_files\\scene.blend"

\* the output directory, with the separator __main__ appends
frame_output_dir == "C:\\blender_files\\renders\\scene_20240101-000000\\"

\* the BlenderCmd that __main__ builds and run mutates
blender_cmd ==
    [project_file_path |-> project_file,
     frame_output_path |-> frame_output_dir,
     start_frame |-> start_frame,
     end_frame |-> end_frame,
     animate |-> TRUE]

\* mutant: the frame-end value is written from start_frame too
command_line_copied(cmd) ==
    <<<<"blender">>, <<"-b">>, <<cmd.project_file_path>>>>
    \o <<<<"--frame-start">>, str(cmd.start_frame)>>
    \o <<<<"--frame-end">>, str(cmd.start_frame)>>
    \o <<<<"--render-output">>, <<cmd.frame_output_path>>>>
    \o (IF cmd.animate THEN <<<<"-a">>>> ELSE <<>>)

\* BlenderCmd.command_line
command_line(cmd) ==
    <<<<"blender">>, <<"-b">>, <<cmd.project_file_path>>>>
    \o <<<<"--frame-start">>, str(cmd.start_frame)>>
    \o <<<<"--frame-end">>, str(cmd.end_frame)>>
    \o <<<<"--render-output">>, <<cmd.frame_output_path>>>>
    \o (IF cmd.animate THEN <<<<"-a">>>> ELSE <<>>)

\* the value Blender reads after the option opt of its command line
OptionValue(args, opt) ==
    LET i == CHOOSE k \in 1..(Len(args) - 1) : args[k] = <<opt>>
    IN  IntOf(args[i + 1])

\* ------------------------------------------------ BlenderLineInterpreter
\* A line is a sequence of pieces of text, as far apart as the two regular
\* expressions and the startswith tests tell them apart.  A field that holds
\* Python's None is the empty sequence; a text is a sequence of pieces.
NoText == <<>>

\* the paths Blender reports as saved
Paths == {"/x/0007.png", "/x/0008.png"}

\* the durations Blender reports: texts that match \d+:?\d+:\d+\.\d+
Durations == {"00:01:23.45"}

\* "Saved: '<path>'"
SavedLine(p) == <<"Saved:", " '", p, "'">>

\* a line that starts with "Saved:" and has no quoted path
MalformedSavedLine == <<"Saved:", " ", "0007.png">>

\* a progress line
FraLine == <<"Fra:", "7 Mem:8.10M | Rendering 1 / 64 samples">>

\* "Time: <duration> (Saving: <duration>)"
TimeLine(d) == <<"Time:", " ", d, " (Saving: ", "00:00.10", ")">>

\* a line that starts with "Time:" and has no duration
MalformedTimeLine == <<"Time:", " ", "n/a">>

\* any other line
OtherLine == <<"Blender", " quit">>

\* the stripped lines summarize is given
Lines ==
    {SavedLine(p) : p \in Paths} \cup {TimeLine(d) : d \in Durations}
    \cup {MalformedSavedLine, FraLine, MalformedTimeLine, OtherLine}

\* line.startswith(prefix)
startswith(line, prefix) == Len(line) >= 1 /\ line[1] = prefix

\* saved_expr.match(line) is not None
saved_expr_matches(line) ==
    Len(line) >= 4 /\ line[1] = "Saved:" /\ line[2] = " '" /\ line[4] = "'"

\* time_expr.match(line) is not None
time_expr_matches(line) ==
    /\ Len(line) >= 6
    /\ line[1] = "Time:" /\ line[2] = " " /\ line[3] \in Durations
    /\ line[4] = " (Saving: " /\ line[6] = ")"

\* f"{x}" of a field: "None" for None
fmt(x) == IF x = NoText THEN <<"None">> ELSE x

\* what print is given: the text and, for the reader of the model, its kind
Printed(kind, text) == [kind |-> kind, text |-> text]

\* mutant: the last report time is not looked at
HeartbeatDue_always(t) == TRUE

\* mutant: a heartbeat is due as soon as the interval has passed
HeartbeatDue_ge(t) == t - last_report_time >= status_msg_freq

\* (current_time := time.time()) - self.last_report_time > self.status_msg_freq
HeartbeatDue(t) == t - last_report_time > status_msg_freq

\* mutant: the report time is left alone
ReportTimeAfterSummary_kept(t) == last_report_time

\* self.last_report_time = time.time() after the summary is printed
ReportTimeAfterSummary(t) == t

\* mutant: the path is taken from the line before the match is looked at
SavedFilenameOf_raw(line) == <<line[Len(line)]>>

\* the try/except of the "Saved:" branch
SavedFilenameOf(line) ==
    IF saved_expr_matches(line) THEN <<line[3]>>
    ELSE <<"Unrecognized Saved File Path: ">> \o line

\* the try/except of the "Time:" branch
RenderTimeOf(line) ==
    IF time_expr_matches(line) THEN <<line[3]>>
    ELSE <<"Unrecognized Render Time: ">> \o line

\* BlenderLineInterpreter.summarize(line), called at time t
summarize(line, t) ==
    IF startswith(line, "Saved:")
    THEN /\ saved_filename' = SavedFilenameOf(line)
         /\ printed' = <<>>
         /\ UNCHANGED <<last_report_time, render_time>>
    ELSE IF startswith(line, "Fra:") /\ HeartbeatDue(t)
    THEN /\ printed' = <<Printed("heartbeat", line)>>
         /\ last_report_time' = t
         /\ UNCHANGED <<saved_filename, render_time>>
    ELSE IF startswith(line, "Time:")
    THEN /\ render_time' = RenderTimeOf(line)
         /\ printed' = <<Printed("summary",
                          fmt(saved_filename) \o <<": ">> \o fmt(render_time'))>>
         /\ last_report_time' = ReportTimeAfterSummary(t)
         /\ UNCHANGED saved_filename
    ELSE /\ printed' = <<>>
         /\ UNCHANGED <<last_report_time, saved_filename, render_time>>

\* the history of a call of summarize
Observe(line, t) ==
    /\ last_line' = line
    /\ IF printed' # <<>> /\ printed'[1].kind = "heartbeat"
       THEN hb_prev' = hb_last /\ hb_last' = t
       ELSE UNCHANGED <<hb_prev, hb_last>>
    /\ fresh' = IF startswith(line, "Saved:") THEN line
                ELSE IF startswith(line, "Time:") THEN NoText
                ELSE fresh
    /\ since_time' = IF startswith(line, "Time:") THEN t
                     ELSE IF startswith(line, "Fra:") THEN None
                     ELSE since_time

\* no interpreter exists
LinesIdle ==
    /\ now = 0
    /\ status_msg_freq = 0
    /\ last_report_time = 0
    /\ saved_filename = NoText
    /\ render_time = NoText
    /\ printed = <<>>
    /\ last_line = NoText
    /\ hb_prev = None
    /\ hb_last = None
    /\ fresh = NoText
    /\ since_time = None

\* no process is being pumped
PumpIdle ==
    /\ ppc = "idle"
    /\ pipe = <<>>
    /\ closed = FALSE
    /\ returncode = None
    /\ written = <<>>
    /\ passed = <<>>
    /\ eof_read = FALSE

\* ------------------------------------------------------------------- run
\* mutant: the last frame itself is taken as rendered one short
last_frame_off(frames) == IF frames = {} THEN 0 ELSE SetMax(frames) - 1

\* mutant: the number of frames instead of the highest one
last_frame_len(frames) == Cardinality(frames)

\* last_frame = max(frames_rendered) if frames_rendered else 0
last_frame(frames) == IF frames = {} THEN 0 ELSE SetMax(frames)

\* mutant: the loop goes on until the exit code is fine and end_frame is there
LoopCondition_and ==
    /\ ~(exit_code \in {0, 1} /\ end_frame \in frames_rendered)
    /\ num_retries < max_retries

\* mutant: only a zero exit code ends the loop
LoopCondition_zero ==
    /\ exit_code # 0
    /\ end_frame \notin frames_rendered
    /\ num_retries < max_retries

\* mutant: the scan is not looked at
LoopCondition_noend ==
    /\ exit_code \notin {0, 1}
    /\ num_retries < max_retries

\* the while condition of run
LoopCondition ==
    /\ exit_code \notin {0, 1}
    /\ end_frame \notin frames_rendered
    /\ num_retries < max_retries

\* mutant: the wrong code is taken as the success code
AttemptFailed_notone(code) == code # 1

\* if exit_code != 0
AttemptFailed(code) == code # 0

Init ==
    /\ pc = "main"
    /\ max_retries \in 0..MaxRetries
    /\ resume \in BOOLEAN
    /\ dir_exists \in (IF resume THEN BOOLEAN ELSE {FALSE})
    /\ dir \in (IF dir_exists THEN SUBSET ResumeEntries ELSE {{}})
    /\ start = 0
    /\ end = 0
    /\ start_frame = 0
    /\ end_frame = 0
    /\ exit_code = None
    /\ num_retries = 0
    /\ frames_rendered = {}
    /\ child_next = 0
    /\ status = None
    /\ error = "none"
    /\ launches = 0
    /\ launch_start = 0
    /\ codes_seen = {}
    /\ LinesIdle
    /\ PumpIdle

\* __main__: get_scene_frames returns the scene's range and the BlenderCmd
\* is built from it
GetSceneFrames ==
    /\ pc = "main"
    /\ \E s \in 0..MaxFrame : \E e \in s..MaxFrame :
          /\ start' = s
          /\ end' = e
          /\ start_frame' = s
          /\ end_frame' = e
    /\ pc' = "entry"
    /\ UNCHANGED <<max_retries, resume, dir_exists, dir, exit_code,
                   num_retries, frames_rendered, child_next, status, error,
                   launches, launch_start, codes_seen>>
    /\ UNCHANGED <<linevars, pumpvars>>

\* get_scene_frames: Blender failed or printed no range; exit(1)
GetSceneFramesFails ==
    /\ pc = "main"
    /\ pc' = "exited"
    /\ status' = 1
    /\ error' = "discovery"
    /\ UNCHANGED <<max_retries, resume, dir_exists, dir, start, end,
                   start_frame, end_frame, exit_code, num_retries,
                   frames_rendered, child_next, launches, launch_start,
                   codes_seen>>
    /\ UNCHANGED <<linevars, pumpvars>>

\* run, up to the loop: the resume adjustment
RunEntry ==
    /\ pc = "entry"
    /\ exit_code' = None
    /\ num_retries' = 0
    /\ IF resume
       THEN \E scan \in {get_frame_numbers_in_dir(dir_exists, dir)} :
                IF scan.raised
                THEN /\ pc' = "exited"
                     /\ status' = 1
                     /\ error' = "ValueError"
                     /\ UNCHANGED <<frames_rendered, start_frame>>
                ELSE /\ frames_rendered' = scan.frames
                     /\ start_frame' = last_frame(scan.frames) + 1
                     /\ pc' = "loop"
                     /\ UNCHANGED <<status, error>>
       ELSE /\ frames_rendered' = {}
            /\ pc' = "loop"
            /\ UNCHANGED <<start_frame, status, error>>
    /\ UNCHANGED <<max_retries, resume, dir_exists, dir, start, end,
                   end_frame, child_next, launches, launch_start, codes_seen>>
    /\ UNCHANGED <<linevars, pumpvars>>

\* the loop condition holds: Popen(blender_cmd.command_line)
Launch ==
    /\ pc = "loop"
    /\ LoopCondition
    /\ pc' = "running"
    /\ child_next' = OptionValue(command_line(blender_cmd), "--frame-start")
    /\ launches' = launches + 1
    /\ launch_start' = start_frame
    /\ UNCHANGED <<max_retries, resume, dir_exists, dir, start, end,
                   start_frame, end_frame, exit_code, num_retries,
                   frames_rendered, status, error, codes_seen>>
    /\ UNCHANGED <<linevars, pumpvars>>

\* the loop condition fails: run returns and the script ends
Return ==
    /\ pc = "loop"
    /\ ~LoopCondition
    /\ pc' = "exited"
    /\ status' = 0
    /\ UNCHANGED <<max_retries, resume, dir_exists, dir, start, end,
                   start_frame, end_frame, exit_code, num_retries,
                   frames_rendered, child_next, error, launches,
                   launch_start, codes_seen>>
    /\ UNCHANGED <<linevars, pumpvars>>

\* Blender writes its next frame into the output directory
ChildRender ==
    /\ pc = "running"
    /\ child_next <= OptionValue(command_line(blender_cmd), "--frame-end")
    /\ dir_exists' = TRUE
    /\ dir' = dir \cup {FrameFile(child_next)}
    /\ child_next' = child_next + 1
    /\ UNCHANGED <<pc, max_retries, resume, start, end, start_frame,
                   end_frame, exit_code, num_retries, frames_rendered,
                   status, error, launches, launch_start, codes_seen>>
    /\ UNCHANGED <<linevars, pumpvars>>

\* the pump loop ends: the stream is at its end and poll gave the exit code
PumpDone ==
    /\ pc = "running"
    /\ \E code \in ExitCodes :
          /\ exit_code' = code
          /\ codes_seen' = codes_seen \cup {code}
    /\ pc' = "evaluate"
    /\ UNCHANGED <<max_retries, resume, dir_exists, dir, start, end,
                   start_frame, end_frame, num_retries, frames_rendered,
                   child_next, status, error, launches, launch_start>>
    /\ UNCHANGED <<linevars, pumpvars>>

\* after the pump loop: scan, report_success, count the failure, adjust
Evaluate ==
    /\ pc = "evaluate"
    /\ \E scan \in {get_frame_numbers_in_dir(dir_exists, dir)} :
           IF scan.raised
           THEN /\ pc' = "exited"
                /\ status' = 1
                /\ error' = "ValueError"
                /\ UNCHANGED <<frames_rendered, num_retries, start_frame>>
           ELSE /\ frames_rendered' = scan.frames
                /\ IF AttemptFailed(exit_code)
                   THEN /\ num_retries' = num_retries + 1
                        /\ start_frame' =
                              IF num_retries + 1 < max_retries
                              THEN last_frame(scan.frames) + 1
                              ELSE start_frame
                   ELSE UNCHANGED <<num_retries, start_frame>>
                /\ pc' = "loop"
                /\ UNCHANGED <<status, error>>
    /\ UNCHANGED <<max_retries, resume, dir_exists, dir, start, end,
                   end_frame, exit_code, child_next, launches, launch_start,
                   codes_seen>>
    /\ UNCHANGED <<linevars, pumpvars>>

Next ==
    \/ GetSceneFrames
    \/ GetSceneFramesFails
    \/ RunEntry
    \/ Launch
    \/ Return
    \/ ChildRender
    \/ PumpDone
    \/ Evaluate

Spec == Init /\ [][Next]_vars

\* ---------------------------------------- one BlenderLineInterpreter alone
\* BlenderLineInterpreter(status_message_frequency), built at time 0; the
\* frequency is the constructor's parameter (run leaves it at its default)
LinesInit ==
    /\ pc = "lines"
    /\ max_retries = 0 /\ resume = FALSE /\ dir_exists = FALSE /\ dir = {}
    /\ start = 0 /\ end = 0 /\ start_frame = 0 /\ end_frame = 0
    /\ exit_code = None /\ num_retries = 0 /\ frames_rendered = {}
    /\ child_next = 0 /\ status = None /\ error = "none"
    /\ launches = 0 /\ launch_start = 0 /\ codes_seen = {}
    /\ now = 0
    /\ status_msg_freq \in 1..MaxFreq
    /\ last_report_time = now
    /\ saved_filename = NoText
    /\ render_time = NoText
    /\ printed = <<>>
    /\ last_line = NoText
    /\ hb_prev = None
    /\ hb_last = None
    /\ fresh = NoText
    /\ since_time = None
    /\ PumpIdle

\* a line arrives, not before the line before it, and summarize is called
Summarize ==
    /\ pc = "lines"
    /\ \E line \in Lines : \E t \in now..MaxTime :
          /\ now' = t
          /\ summarize(line, t)
          /\ Observe(line, t)
    /\ UNCHANGED <<runvars, status_msg_freq, pumpvars>>

LinesNext == Summarize

LinesSpec == LinesInit /\ [][LinesNext]_vars

\* ------------------------------------------ the pump loop of one attempt
\* Blender writes lines of UTF-8 text, each ended by a line break, to the
\* pipe; a raw line is the line's pieces and the line break.
RawLine(line) == line \o <<"\r\n">>

\* what the process may write: progress, save and timing lines, and blank ones
ChildLines ==
    {RawLine(FraLine), RawLine(SavedLine("/x/0007.png")),
     RawLine(TimeLine("00:01:23.45")), <<"\r\n">>}

\* time.time() in a call of summarize by the pump loop: the line is read at
\* once, or after more than a heartbeat period
PumpTimes == {now, now + status_message_frequency + 1}

\* pieces that are white space only
WhiteSpace == {" ", "\n", "\r\n", "\t"}

RECURSIVE lstrip(_)
\* str.lstrip()
lstrip(text) ==
    IF text # <<>> /\ text[1] \in WhiteSpace THEN lstrip(Tail(text)) ELSE text

RECURSIVE rstrip(_)
\* str.rstrip()
rstrip(text) ==
    IF text # <<>> /\ text[Len(text)] \in WhiteSpace
    THEN rstrip(SubSeq(text, 1, Len(text) - 1))
    ELSE text

\* stdout.decode().strip()
decode_strip(raw) == lstrip(rstrip(raw))

\* mutant: the loop is left only when the process has exited with success
BreakTest_zero(stdout) == stdout = <<>> /\ exit_code = 0

\* mutant: the loop is left as soon as the process has exited
BreakTest_exited(stdout) == exit_code # None

\* if stdout == b'' and exit_code is not None: break
BreakTest(stdout) == stdout = <<>> /\ exit_code # None

\* right after Popen of an attempt: the interpreter is new, nothing is
\* written yet, exit_code is None or what the attempt before left
PumpInit ==
    /\ pc = "pump"
    /\ max_retries = 0 /\ resume = FALSE /\ dir_exists = FALSE /\ dir = {}
    /\ start = 0 /\ end = 0 /\ start_frame = 0 /\ end_frame = 0
    /\ exit_code \in {None} \cup (ExitCodes \ {0, 1})
    /\ num_retries = 0 /\ frames_rendered = {}
    /\ child_next = 0 /\ status = None /\ error = "none"
    /\ launches = 0 /\ launch_start = 0 /\ codes_seen = {}
    /\ now = 0
    /\ status_msg_freq = status_message_frequency
    /\ last_report_time = now
    /\ saved_filename = NoText
    /\ render_time = NoText
    /\ printed = <<>>
    /\ last_line = NoText
    /\ hb_prev = None
    /\ hb_last = None
    /\ fresh = NoText
    /\ since_time = None
    /\ ppc = "poll0"
    /\ pipe = <<>>
    /\ closed = FALSE
    /\ returncode = None
    /\ written = <<>>
    /\ passed = <<>>
    /\ eof_read = FALSE

\* what the pump loop leaves alone of the state of run
PumpKeeps ==
    UNCHANGED <<pc, max_retries, resume, dir_exists, dir, start, end,
                start_frame, end_frame, num_retries, frames_rendered,
                child_next, status, error, launches, launch_start, codes_seen>>

\* the process writes a line to its output
ChildWrite ==
    /\ ppc \in {"poll0", "readline", "poll"}
    /\ ~closed
    /\ Len(written) < MaxLines
    /\ \E raw \in ChildLines :
          /\ pipe' = Append(pipe, raw)
          /\ written' = Append(written, raw)
    /\ PumpKeeps
    /\ UNCHANGED <<exit_code, linevars, ppc, closed, returncode, passed,
                   eof_read>>

\* the write end of the pipe is closed (by the process, or as it exits)
ChildClose ==
    /\ ppc \in {"poll0", "readline", "poll"}
    /\ ~closed
    /\ closed' = TRUE
    /\ PumpKeeps
    /\ UNCHANGED <<exit_code, linevars, ppc, pipe, returncode, written,
                   passed, eof_read>>

\* the process exits
ChildExit ==
    /\ ppc \in {"poll0", "readline", "poll"}
    /\ returncode = None
    /\ \E code \in ExitCodes : returncode' = code
    /\ PumpKeeps
    /\ UNCHANGED <<exit_code, linevars, ppc, pipe, closed, written, passed,
                   eof_read>>

\* exit_code = proc.poll(), before the loop
PumpPoll0 ==
    /\ ppc = "poll0"
    /\ exit_code' = returncode
    /\ ppc' = "readline"
    /\ PumpKeeps
    /\ UNCHANGED <<linevars, pipe, closed, returncode, written, passed,
                   eof_read>>

\* stdout = proc.stdout.readline() returns a line: it is summarized
PumpReadLine ==
    /\ ppc = "readline"
    /\ pipe # <<>>
    /\ LET stdout == Head(pipe)
       IN  /\ pipe' = Tail(pipe)
           /\ IF BreakTest(stdout)
              THEN /\ ppc' = "done"
                   /\ UNCHANGED <<linevars, passed>>
              ELSE /\ ppc' = "poll"
                   /\ IF stdout # <<>>
                      THEN \E t \in PumpTimes :
                              /\ now' = t
                              /\ summarize(decode_strip(stdout), t)
                              /\ Observe(decode_strip(stdout), t)
                              /\ passed' = Append(passed, decode_strip(stdout))
                              /\ UNCHANGED status_msg_freq
                      ELSE UNCHANGED <<linevars, passed>>
    /\ PumpKeeps
    /\ UNCHANGED <<exit_code, closed, returncode, written, eof_read>>

\* stdout = proc.stdout.readline() returns b'': the stream is at its end
PumpReadEof ==
    /\ ppc = "readline"
    /\ pipe = <<>>
    /\ closed
    /\ eof_read' = TRUE
    /\ ppc' = IF BreakTest(<<>>) THEN "done" ELSE "poll"
    /\ PumpKeeps
    /\ UNCHANGED <<exit_code, linevars, pipe, closed, returncode, written,
                   passed>>

\* exit_code = proc.poll(), at the end of the loop body
PumpPoll ==
    /\ ppc = "poll"
    /\ exit_code' = returncode
    /\ ppc' = "readline"
    /\ PumpKeeps
    /\ UNCHANGED <<linevars, pipe, closed, returncode, written, passed,
                   eof_read>>

PumpNext ==
    \/ ChildWrite
    \/ ChildClose
    \/ ChildExit
    \/ PumpPoll0
    \/ PumpReadLine
    \/ PumpReadEof
    \/ PumpPoll

PumpSpec == PumpInit /\ [][PumpNext]_vars

\* run as a whole and the pump loop of one attempt, each from its start. In
\* Spec the pump loop of an attempt is the one step PumpDone, which yields
\* any exit code; PumpSpec is that step taken apart.
LiveInit == Init \/ PumpInit

LiveNext == Next \/ PumpNext

\* a step of run, the supervisor: it is one sequential program, so at most
\* one of these is enabled by its position
Supervisor ==
    \/ GetSceneFrames \/ GetSceneFramesFails \/ RunEntry \/ Launch \/ Return
    \/ PumpDone \/ Evaluate
    \/ PumpPoll0 \/ PumpReadLine \/ PumpReadEof \/ PumpPoll

\* the interpreter goes on running run; a launched process closes its output
\* and exits; it need not write or render anything
Fairness ==
    /\ WF_vars(Supervisor)
    /\ WF_vars(ChildClose)
    /\ WF_vars(ChildExit)

LiveSpec == LiveInit /\ [][LiveNext]_vars /\ Fairness

\* ----------------------------------------------------------- type check
TypeOK ==
    /\ pc \in {"main", "entry", "loop", "running", "evaluate", "exited"}
    /\ num_retries \in 0..MaxRetries
    /\ exit_code \in ExitCodes \cup {None}
    /\ frames_rendered \subseteq 0..MaxFrame
    /\ launches \in 0..MaxRetries

\* ---------------------------------------------------------------- claims
\* the unit numbers that have an artifact in the output directory, read off
\* the directory itself (not through get_frame_numbers_in_dir)
Artifacts == {n \in 0..(MaxFrame + 1) : FrameFile(n) \in dir}

\* max(S) + 1, and 1 when S is empty
AfterLast(S) == IF S = {} THEN 1 ELSE SetMax(S) + 1

\* the process was launched and has not written a frame yet
JustLaunched == pc = "running" /\ child_next = launch_start

C2_ExactlyMaxRetriesLaunches ==
    (/\ pc = "exited" /\ error = "none"
     /\ 0 \notin codes_seen
     /\ end_frame \notin Artifacts)
    => launches = max_retries

\* C3: a launch that follows a failed attempt starts at max(S) + 1, S the
\* units with an artifact after the failed attempt, and at 1 when S is empty.
C3_RelaunchStartsAfterLastArtifact ==
    (JustLaunched /\ launches >= 2) => launch_start = AfterLast(Artifacts)

\* C3 witness: a second launch after a failed attempt that left artifacts
C3_Witness ==
    /\ JustLaunched /\ launches = 2
    /\ Artifacts # {}
    /\ start_frame = SetMax(Artifacts) + 1
    /\ AttemptFailed(exit_code)

\* C4 (as claimed): a launch that follows a failed attempt starts at the
\* lowest unit of the job's range [start, end_frame] that has no artifact.
C4_RelaunchStartsAtFirstUnrendered ==
    (JustLaunched /\ launches >= 2) =>
        LET unrendered == {n \in start..end_frame : n \notin Artifacts}
        IN  /\ launch_start \in unrendered
            /\ \A n \in unrendered : launch_start <= n

\* C5: with resume the first launch starts at max(S) + 1, S the units with an
\* artifact in the resume directory before any launch (1 when S is empty),
\* whatever the scene's first frame is.
C5_ResumeStartsAfterLastArtifact ==
    (resume /\ JustLaunched /\ launches = 1) =>
        launch_start = AfterLast(Artifacts)

\* C5 witness: a resumed first launch that does not start at the scene's
\* first frame
C5_Witness ==
    /\ resume /\ JustLaunched /\ launches = 1
    /\ Artifacts # {}
    /\ launch_start # start
    /\ launch_start = SetMax(Artifacts) + 1

\* C6 (as claimed, its first half): once an attempt was launched,
\* start_frame never decreases.
C6_StartFrameNeverDecreases ==
    [][launches >= 1 => start_frame' >= start_frame]_vars

\* C7 (as claimed): after the resume adjustment and after every adjustment
\* that follows a failed attempt, start_frame <= end_frame.
C7_StartNotAfterEnd ==
    pc \in {"loop", "running", "evaluate", "exited"} => start_frame <= end_frame

\* C8: when the first attempt exits 0 and end_frame is in the scan taken
\* after it, run stops without a second launch, num_retries is still 0 and
\* start_frame is the value the attempt was launched with.
C8_FirstAttemptDone ==
    [][(/\ pc = "loop" /\ launches = 1
        /\ exit_code = 0 /\ end_frame \in Artifacts) =>
         /\ num_retries = 0
         /\ start_frame = launch_start
         /\ pc' = "exited"
         /\ launches' = 1
         /\ num_retries' = 0
         /\ start_frame' = launch_start]_vars

\* C8 witness: run returned after one attempt that exited 0 with end_frame
\* rendered, with retries left
C8_Witness ==
    /\ pc = "exited" /\ error = "none" /\ launches = 1
    /\ exit_code = 0 /\ end_frame \in Artifacts
    /\ max_retries >= 1 /\ num_retries = 0
    /\ start_frame = launch_start

\* C9 (as claimed): when the retry budget is exhausted (every attempt exited
\* non-zero, num_retries reached max_retries, end_frame has no artifact) the
\* program ends with a non-zero status.
C9_ExhaustedEndsNonZero ==
    (/\ pc = "exited"
     /\ launches >= 1
     /\ 0 \notin codes_seen
     /\ num_retries >= max_retries
     /\ end_frame \notin Artifacts)
    => status # 0

\* C10 (as claimed): a scan returns exactly the integer stems of the regular
\* files of the directory and skips the others, so neither the resume scan
\* nor an attempt's evaluation ends the program with an error.
C10_ScanSkipsNonNumeric ==
    (pc \in {"loop", "exited"} /\ error # "discovery") =>
        /\ error = "none"
        /\ frames_rendered = (IF resume \/ launches >= 1 THEN Artifacts ELSE {})

\* C19: an attempt that exits with code 1 is counted as failed (num_retries
\* is incremented and, when num_retries < max_retries afterwards, start_frame
\* becomes max(scan) + 1, else it stays), and no launch follows it, whether
\* end_frame has an artifact or not.
C19_ExitOneCountedButFinal ==
    [][/\ (pc = "evaluate" /\ exit_code = 1) =>
            /\ pc' = "loop"
            /\ num_retries' = num_retries + 1
            /\ start_frame' = IF num_retries' < max_retries
                              THEN AfterLast(Artifacts)
                              ELSE start_frame
       /\ (pc = "loop" /\ exit_code = 1) =>
            /\ pc' = "exited"
            /\ launches' = launches]_vars

\* C19 witness: run returned after an attempt that exited 1 without
\* end_frame, counted as a retry, adjusted, with retries left
C19_Witness ==
    /\ pc = "exited" /\ error = "none" /\ exit_code = 1
    /\ launches = 1 /\ num_retries = 1 /\ max_retries > 1
    /\ end_frame \notin Artifacts
    /\ Artifacts # {}
    /\ start_frame = SetMax(Artifacts) + 1

\* C20: with resume, when the scan of the resume directory already holds
\* end_frame, start_frame has been set to max(scan) + 1, and run returns
\* without launching a process and with num_retries = 0.
C20_ResumeOfFinishedJobLaunchesNothing ==
    [][(/\ resume /\ pc = "loop" /\ launches = 0
        /\ end_frame \in Artifacts) =>
         /\ start_frame = AfterLast(Artifacts)
         /\ num_retries = 0
         /\ pc' = "exited"
         /\ launches' = 0
         /\ num_retries' = 0
         /\ start_frame' = start_frame]_vars

\* C20 witness: a resumed run of a finished job returned with retries left
\* and nothing launched, start_frame past end_frame
C20_Witness ==
    /\ resume /\ pc = "exited" /\ error = "none"
    /\ launches = 0 /\ num_retries = 0 /\ max_retries >= 1
    /\ end_frame \in Artifacts
    /\ start_frame = SetMax(Artifacts) + 1
    /\ start_frame > end_frame

\* C14: writing start_frame changes the command line at one place only, the
\* value that follows "--frame-start": the two command lines have the same
\* length, agree everywhere else, and carry the old and the new start_frame
\* there.
C14_OnlyFrameStartValueChanges ==
    [][pc # "main" =>
         LET old == command_line(blender_cmd)
             new == command_line(blender_cmd)'
         IN  /\ Len(new) = Len(old)
             /\ \A i \in 1..Len(old) :
                   new[i] # old[i] => (i = 5 /\ old[4] = <<"--frame-start">>)
             /\ old[5] = str(start_frame)
             /\ new[5] = str(start_frame')
             /\ (start_frame' # start_frame) => new[5] # old[5]]_vars

\* C14 witness: a second launch whose command line differs from the first
\* one's, which was built from the scene's first frame
C14_Witness ==
    /\ JustLaunched /\ launches = 2 /\ ~resume
    /\ start_frame # start
    /\ command_line(blender_cmd)[5] = str(start_frame)
    /\ command_line(blender_cmd)[5] # str(start)

\* a step of LinesSpec that changes the state is one call of summarize, on
\* the line last_line', at the time now'

\* C11: any two heartbeats one interpreter prints are more than
\* status_msg_freq apart (so heartbeat lines that arrive within a shorter
\* span print at most one heartbeat).
C11_HeartbeatsMoreThanFreqApart ==
    hb_prev # None => hb_last - hb_prev > status_msg_freq

\* C11 witness: two heartbeats were printed and a third "Fra:" line was
\* suppressed
C11_Witness ==
    /\ pc = "lines" /\ hb_prev # None
    /\ last_line = FraLine /\ printed = <<>>
    /\ now - hb_last <= status_msg_freq

\* C12: after summarize processed a "Time:" line at time t, parsed or not,
\* last_report_time = t.
C12_TimingLineResetsReportTime ==
    (pc = "lines" /\ startswith(last_line, "Time:")) => last_report_time = now

\* C12 witness: an unparsable "Time:" line reset the report time shortly
\* after a heartbeat was printed
C12_Witness ==
    /\ pc = "lines" /\ last_line = MalformedTimeLine
    /\ hb_last # None /\ now - hb_last <= status_msg_freq
    /\ last_report_time = now /\ now > hb_last

\* C13: a "Saved:" line prints nothing; only a "Time:" line prints a summary;
\* and the "Time:" line with duration d that follows the line "Saved: 'p'"
\* (no other "Saved:" line in between) prints exactly one thing, the summary
\* "p: d".
C13_SavedThenTimePrintsOneSummary ==
    [][/\ startswith(last_line', "Saved:") => printed' = <<>>
       /\ (printed' # <<>> /\ printed'[1].kind = "summary")
             => startswith(last_line', "Time:")
       /\ \A p \in Paths : \A d \in Durations :
             (fresh = SavedLine(p) /\ last_line' = TimeLine(d)) =>
                 printed' = <<Printed("summary", <<p, ": ", d>>)>>]_vars

\* C13 witness: the summary of a saved path and its duration was printed
C13_Witness ==
    /\ pc = "lines"
    /\ last_line = TimeLine("00:01:23.45")
    /\ saved_filename = <<"/x/0007.png">>
    /\ printed = <<Printed("summary", <<"/x/0007.png", ": ", "00:01:23.45">>)>>

\* C15 (as claimed): a "Time:" line that no "Saved:" line came before since
\* the last "Time:" line prints its summary with the fallback marker (None),
\* not with an earlier path.
C15_PendingPathClearedAfterSummary ==
    [][(fresh = NoText /\ startswith(last_line', "Time:")) =>
         (printed' # <<>> /\ printed'[1].text[1] = "None")]_vars

\* C16 (as claimed): the first "Fra:" line after a "Time:" line is printed,
\* however soon it comes.
C16_FirstHeartbeatAfterTimingPrinted ==
    [][(since_time # None /\ startswith(last_line', "Fra:")) =>
         printed' = <<Printed("heartbeat", last_line')>>]_vars

\* C16 (amended): the first "Fra:" line after a "Time:" line is printed
\* exactly when it comes more than status_msg_freq after that "Time:" line; it
\* is suppressed when it comes within status_msg_freq of it.
C16_FirstHeartbeatAfterTimingRateLimited ==
    [][(since_time # None /\ startswith(last_line', "Fra:")) =>
         /\ (now' - since_time > status_msg_freq)
               => printed' = <<Printed("heartbeat", last_line')>>
         /\ (now' - since_time <= status_msg_freq) => printed' = <<>>]_vars

\* C16 witness: no heartbeat was printed so far, and the "Fra:" line that came
\* after a "Time:" line, later but within status_msg_freq, was suppressed
C16_Witness ==
    /\ pc = "lines" /\ last_line = FraLine /\ printed = <<>>
    /\ render_time # NoText /\ since_time = None /\ hb_last = None
    /\ now > last_report_time
    /\ now - last_report_time <= status_msg_freq

\* C17: in every interleaving of the process (write, close, exit) with the
\* readline and poll steps of run, the lines given to summarize are, stripped,
\* the lines written, once each and in the order written; what a call prints
\* is about the line it was given; and the pump loop is left only after
\* readline returned b'' and poll returned the exit code, with every written
\* line given to summarize, so that the scan of line 73 comes after the last
\* line was classified.
C17_PumpLeftAfterEofAndExitAllLinesInOrder ==
    (ppc # "idle") =>
        /\ Len(passed) <= Len(written)
        /\ \A i \in 1..Len(passed) : passed[i] = decode_strip(written[i])
        /\ (printed # <<>>) =>
              /\ passed # <<>>
              /\ last_line = passed[Len(passed)]
              /\ (printed[1].kind = "heartbeat") => printed[1].text = last_line
              /\ (printed[1].kind = "summary") => startswith(last_line, "Time:")
        /\ (ppc = "done") =>
              /\ eof_read
              /\ exit_code \in ExitCodes
              /\ exit_code = returncode
              /\ pipe = <<>>
              /\ Len(passed) = Len(written)

\* C17 witness: the process exited while both its lines were still in the
\* pipe, and the loop was left after both were summarized and the second one
\* printed an event
C17_Witness ==
    /\ ppc = "done"
    /\ Len(written) = MaxLines
    /\ written[1] # written[2]
    /\ Len(passed) = Len(written)
    /\ printed # <<>>
    /\ exit_code = 2

\* C18: if every launched process closes its output and exits, run comes to
\* its end from every start, and the pump loop of an attempt comes to its
\* end; a pump loop whose process has exited and whose stream is at its end
\* is left.
C18_RunAndPumpTerminate ==
    <>(pc = "exited" \/ ppc = "done")

\* C18 witness: a process that wrote nothing closed its output and exited
\* with a failure code; readline returned b'', poll returned the code, and
\* the pump loop was left
C18_Witness ==
    /\ ppc = "done"
    /\ written = <<>>
    /\ eof_read
    /\ returncode = 2
    /\ exit_code = returncode

====
